---- MODULE Spec2Model ----
(***************************************************************************)
(* The response-error handler of createRefreshTokenPlugin                  *)
(* (@mrsamdev/axios-token-refresh): a coordinator instance, its closure    *)
(* state (pendingRequests, isRefreshing, refreshPromise), the request      *)
(* objects it marks and rewrites, the promises it hands out, the timeout   *)
(* timers it arms and the refreshTokenFn invocations it starts.            *)
(*                                                                         *)
(* JavaScript runs each synchronous stretch of a handler to completion, so *)
(* one action is one such stretch: HandleFailure is the handler from entry *)
(* to its return or to `await refreshPromise`; Resume is the initiator's   *)
(* continuation after the await, to its return.                            *)
(***************************************************************************)
EXTENDS Naturals, Sequences, FiniteSets, TLC

\* ---------------------------------------------------------------- bounds
NumRequests == 3
MaxSessions == 2

Requests == 1..NumRequests
Sessions == 1..MaxSessions

\* ---------------------------------------------------------------- values
NULL == "null"
Tokens == {"abc"}
RefreshResults == Tokens \cup {NULL}
OldAuthorization == "Bearer old"

\* `if (newToken)`: null and the empty string are falsy
\* (a test that takes every result for a credential)
TruthyAnyValue(t) == TRUE

Truthy(t) == t # NULL /\ t # ""

\* a JavaScript value that was thrown or rejected with; isError: instanceof Error
Value(msg, isErr) == [message |-> msg, isError |-> isErr]
NewError(msg) == Value(msg, TRUE)
NoValue == Value("", FALSE)

\* what refreshTokenFn may reject with: an Error, or any other value
RefreshRejections == {NewError("invalid_grant"), Value("expired", FALSE)}
\* what a user callback may throw
ThrownValues == {NewError("callback failed"), Value("oops", FALSE)}

\* statusCode: the response's status, or "Network Error" (here 0, which no response
\* carries) when the failure has no response
NetworkError == 0
Unauthorized == 401

\* the failure axios hands to the handler for request r (hasResponse FALSE: a
\* network error, which carries no response)
AxiosError(r, hasResponse, status) ==
    [message |-> "Request failed", isError |-> TRUE, config |-> r,
     hasResponse |-> hasResponse, status |-> status]
Failures(r) == {AxiosError(r, TRUE, Unauthorized), AxiosError(r, TRUE, 500)}
\* a re-issued request that fails again fails as it did the first time: unauthorized
ReplayFailures(r) == {AxiosError(r, TRUE, Unauthorized)}

TimeoutError == NewError("Token refresh timeout")

\* new Error("Token refresh failed") with .originalError = error
RefreshFailedError(error) ==
    [message |-> "Token refresh failed", isError |-> TRUE, originalError |-> error]

\* ------------------------------------------------------ configured callbacks
\* (a classifier that forgot the status test)
shouldRefreshTokenAnyStatus(error, held) == held # NULL

\* (a classifier that forgot the failures without response)
shouldRefreshTokenOnlyUnauthorized(error, held) ==
    error.hasResponse /\ error.status = Unauthorized /\ held # NULL

shouldRefreshToken(error, held) ==
    LET statusCode == IF error.hasResponse THEN error.status ELSE NetworkError
    IN  (statusCode = Unauthorized \/ statusCode = NetworkError) /\ held # NULL

authHeaderFormatter(token) == "Bearer " \o token

\* ---------------------------------------------------------------- state
VARIABLES
    isRefreshing,     \* let isRefreshing
    pendingRequests,  \* const pendingRequests = [] : the requests of its entries, in order
    refreshPromise,   \* let refreshPromise: 0 (null) or the session whose race it is
    request,          \* the request objects: _retry mark and Authorization header
    retryPromise,     \* per request: the promise of its entry, and the calls of its resolve/reject
    replay,           \* per request: the re-issue axios(request) of the fan-out
    returned,         \* per request: what the handler returned for its first failure,
                      \* the failure it was called with and what getAuthToken() held
    session,          \* per session: initiator, refreshTokenFn call, timer, Promise.race
    nsess,            \* sessions started so far
    statusLog,        \* the calls of onStatusChange, in order
    focus,            \* which of two coordinator instances the variables above describe
    peer,             \* the same state of the other instance, as one record
    requestTracker,   \* src/index.js only: const requestTracker = []
    pollPromise       \* src/index.js only: per request, the promise of its setInterval poll

vars == <<isRefreshing, pendingRequests, refreshPromise, request, retryPromise,
          replay, returned, session, nsess, statusLog, focus, peer,
          requestTracker, pollPromise>>

\* what the handlers of one instance never reach: the other instance, and the
\* state of the polling implementation
others == <<focus, peer, requestTracker, pollPromise>>

NoSession ==
    [initiator |-> "none", request |-> 0, attempt |-> "first", error |-> NoValue,
     calls |-> 0, fn |-> "notcalled", timer |-> "unset",
     race |-> [state |-> "none", token |-> NULL, reason |-> NoValue]]

\* the state one call of createRefreshTokenPlugin creates, and the requests and
\* promises of its axios instance, before any failure
FreshInstance ==
    [isRefreshing |-> FALSE,
     pendingRequests |-> <<>>,
     refreshPromise |-> 0,
     request |-> [r \in Requests |-> [_retry |-> FALSE, Authorization |-> OldAuthorization]],
     retryPromise |-> [r \in Requests |->
          [state |-> "none", value |-> NoValue, resolveCalls |-> 0, rejectCalls |-> 0,
           session |-> 0, settledBy |-> 0, role |-> "none"]],
     replay |-> [r \in Requests |->
          [state |-> "none", value |-> NoValue, count |-> 0, sent |-> ""]],
     returned |-> [r \in Requests |->
          [kind |-> "none", value |-> NoValue, error |-> NoValue, held |-> NULL]],
     session |-> [s \in Sessions |-> NoSession],
     nsess |-> 0,
     statusLog |-> <<>>]

\* the variables take the values of record i
Installed(i) ==
    /\ isRefreshing = i.isRefreshing
    /\ pendingRequests = i.pendingRequests
    /\ refreshPromise = i.refreshPromise
    /\ request = i.request
    /\ retryPromise = i.retryPromise
    /\ replay = i.replay
    /\ returned = i.returned
    /\ session = i.session
    /\ nsess = i.nsess
    /\ statusLog = i.statusLog

NoPoll == [state |-> "none", value |-> NoValue, session |-> 0]

Init ==
    /\ Installed(FreshInstance)
    /\ focus = 1
    /\ peer = FreshInstance
    /\ requestTracker = <<>>
    /\ pollPromise = [r \in Requests |-> NoPoll]

\* ------------------------------------------------- the handler's building blocks
\* The state a handler stretch reads and writes, as one record, so that the
\* statements of the handler compose in their order.
Current ==
    [isRefreshing |-> isRefreshing, pendingRequests |-> pendingRequests,
     refreshPromise |-> refreshPromise, request |-> request,
     retryPromise |-> retryPromise, replay |-> replay, statusLog |-> statusLog]

Occurrences(seq, r) == Cardinality({i \in DOMAIN seq : seq[i] = r})

\* onStatusChange(status, error), called by the handler running for session `by`
\* (0: a handler that is no session's initiator)
Notify(st, status, error, by) ==
    [st EXCEPT !.statusLog = Append(@, [status |-> status, error |-> error, by |-> by])]

\* originalRequest._retry = true; new Promise(... pendingRequests.push({request, resolve, reject}))
\* (an entry pushed without marking its request)
EnqueueUnmarked(st, r, s, role) ==
    [st EXCEPT !.pendingRequests = Append(@, r),
               !.retryPromise[r] = [@ EXCEPT !.state = "pending", !.value = NoValue,
                                             !.session = s, !.role = role]]

Enqueue(st, r, s, role) ==
    [st EXCEPT !.request[r]._retry = TRUE,
               !.pendingRequests = Append(@, r),
               !.retryPromise[r] = [@ EXCEPT !.state = "pending", !.value = NoValue,
                                             !.session = s, !.role = role]]

\* the entries a fan-out visits: the first `upto` of the wait set as it is when the
\* fan-out runs
FanOutEntriesSnapshot(st, upto) ==
    SubSeq(st.pendingRequests, 1, IF upto > 1 THEN 1 ELSE upto)

FanOutEntries(st, upto) == SubSeq(st.pendingRequests, 1, upto)

\* n calls of an entry's reject(error): only the first call on a pending promise settles it
RejectCall(p, error, by, n) ==
    IF p.state = "pending"
    THEN [p EXCEPT !.state = "rejected", !.value = error, !.settledBy = by,
                   !.rejectCalls = @ + n]
    ELSE [p EXCEPT !.rejectCalls = @ + n]

\* pendingRequests.forEach(({ reject }) => reject(error))
RejectEntries(st, error, by) ==
    [st EXCEPT !.retryPromise =
        [r \in Requests |->
            LET n == Occurrences(FanOutEntries(st, Len(st.pendingRequests)), r)
            IN  IF n > 0 THEN RejectCall(st.retryPromise[r], error, by, n)
                ELSE st.retryPromise[r]]]

\* the header a replayed request carries: rewritten only for a truthy token
RewrittenAuthorizationKept(old, newToken) == old

RewrittenAuthorization(old, newToken) ==
    IF Truthy(newToken) THEN authHeaderFormatter(newToken) ELSE old

\* pendingRequests.forEach(({ request, resolve }) => { if (newToken) request.headers[..] = ..;
\*   resolve(axios(request)) }), for the first `upto` entries
ResolveEntries(st, upto, newToken, by) ==
    LET visited == FanOutEntries(st, upto)
        n(r) == Occurrences(visited, r)
        auth(r) == RewrittenAuthorization(st.request[r].Authorization, newToken)
    IN  [st EXCEPT
          !.request = [r \in Requests |->
              IF n(r) > 0 THEN [st.request[r] EXCEPT !.Authorization = auth(r)]
              ELSE st.request[r]],
          !.replay = [r \in Requests |->
              IF n(r) > 0
              THEN [state |-> "flying", value |-> NoValue,
                    count |-> st.replay[r].count + n(r), sent |-> auth(r)]
              ELSE st.replay[r]],
          !.retryPromise = [r \in Requests |->
              IF n(r) = 0 THEN st.retryPromise[r]
              ELSE IF st.retryPromise[r].state = "pending"
                   THEN [st.retryPromise[r] EXCEPT !.state = "resolved", !.settledBy = by,
                                                   !.resolveCalls = @ + n(r)]
                   ELSE [st.retryPromise[r] EXCEPT !.resolveCalls = @ + n(r)]]]

\* pendingRequests.length = 0

ClearPending(st) == [st EXCEPT !.pendingRequests = <<>>]

\* finally { isRefreshing = false; refreshPromise = null }
FinallyRefreshSkipped(st) == st

FinallyRefresh(st) == [st EXCEPT !.isRefreshing = FALSE, !.refreshPromise = 0]

\* refreshError instanceof Error ? refreshError : new Error("Token refresh failed")
RefreshCause(refreshError) ==
    IF refreshError.isError THEN refreshError ELSE NewError("Token refresh failed")

\* catch (refreshError) { ... }: [st, threw]
CatchRefresh(st, refreshError, th, by) ==
    LET error == RefreshCause(refreshError)
        st1 == Notify(st, "failed", error, by)
    IN  IF "failed" \in th
        THEN [st |-> st1, threw |-> TRUE]
        ELSE [st |-> ClearPending(RejectEntries(st1, RefreshFailedError(error), by)),
              threw |-> FALSE]

\* catch (interceptorError) { ... }: [st, threw]
CatchInterceptor(st, interceptorError, th, by) ==
    LET error == IF interceptorError.isError THEN interceptorError
                 ELSE NewError("Unknown error in refresh token interceptor")
        st1 == Notify(st, "error", error, by)
    IN  IF ~ st.isRefreshing THEN [st |-> st, threw |-> FALSE]
        ELSE IF "error" \in th THEN [st |-> st1, threw |-> TRUE]
        ELSE [st |-> [ClearPending(RejectEntries(st1, error, by))
                         EXCEPT !.isRefreshing = FALSE, !.refreshPromise = 0],
              threw |-> FALSE]

\* the stretch's writes reach the variables
Commit(st) ==
    /\ isRefreshing' = st.isRefreshing
    /\ pendingRequests' = st.pendingRequests
    /\ refreshPromise' = st.refreshPromise
    /\ request' = st.request
    /\ retryPromise' = st.retryPromise
    /\ statusLog' = st.statusLog
    /\ UNCHANGED others

\* The handler's promise settles for the attempt it was called for: the caller's
\* first attempt, or the replay axios(request) whose failure re-entered the handler.
Deliver(st, r, attempt, kind, value, error, held) ==
    IF attempt = "first"
    THEN /\ returned' = [returned EXCEPT ![r] =
                [kind |-> kind, value |-> value, error |-> error, held |-> held]]
         /\ replay' = st.replay
    ELSE /\ returned' = returned
         /\ replay' = [st.replay EXCEPT ![r].state =
                           IF kind = "reject" THEN "rejected" ELSE "requeued",
                                        ![r].value = value]

\* ---------------------------------------------------------------- the handler
\* the callbacks that throw in one stretch: the first call that throws, and
\* possibly the onStatusChange call of the catch block it lands in
HandlerThrows ==
    {{p} : p \in {"shouldRefreshToken", "refreshing", "refreshTokenFn"}}
    \cup {{p, "error"} : p \in {"shouldRefreshToken", "refreshing", "refreshTokenFn"}}
ResumeThrows ==
    {{"failed"}} \cup {{p} : p \in {"success", "authHeaderFormatter"}}
    \cup {{p, "failed"} : p \in {"success", "authHeaderFormatter"}}

\* the session a joiner finds in progress, and whether its race is still open
JoinRole ==
    IF refreshPromise # 0 /\ session[refreshPromise].race.state = "pending"
    THEN "joiner" ELSE "tail"

\* `shouldRefreshToken(error, originalRequest) && !originalRequest._retry`
EligibleIgnoringRetry(r, error, held) == shouldRefreshToken(error, held)

Eligible(r, error, held) == shouldRefreshToken(error, held) /\ ~ request[r]._retry

\* `if (!isRefreshing)`: the test that makes a handler the initiator
StartsRefreshUnguarded(st) == TRUE

StartsRefresh(st) == ~ st.isRefreshing

\* async (error) => { ... }, from its entry to its return or to `await refreshPromise`.
\* th: the callbacks that throw when this stretch calls them; x: what they throw.
Handler(r, attempt, error, held, th, x) ==
    LET s == nsess + 1
        st0 == Current
        classifierThrows == "shouldRefreshToken" \in th
        eligible == Eligible(r, error, held)
        starts == ~ classifierThrows /\ eligible /\ StartsRefresh(st0)
        st1 == Enqueue(st0, r, IF starts THEN s ELSE refreshPromise,
                       IF starts THEN "initiator" ELSE JoinRole)
        st3 == Notify([st1 EXCEPT !.isRefreshing = TRUE], "refreshing", NoValue, s)
        st4 == [st3 EXCEPT !.refreshPromise = s]
        begun == [NoSession EXCEPT !.request = r, !.attempt = attempt, !.error = error]
    IN
    /\ starts => nsess < MaxSessions
    /\ IF classifierThrows THEN
           LET c == CatchInterceptor(st0, x, th, 0) IN
           /\ Commit(c.st)
           /\ Deliver(c.st, r, attempt, "reject", IF c.threw THEN x ELSE error, error, held)
           /\ UNCHANGED <<session, nsess>>
       ELSE IF ~ eligible THEN
           /\ Commit(st0)
           /\ Deliver(st0, r, attempt, "reject", error, error, held)
           /\ UNCHANGED <<session, nsess>>
       ELSE IF ~ starts THEN
           /\ Commit(st1)
           /\ Deliver(st1, r, attempt, "retryPromise", NoValue, error, held)
           /\ UNCHANGED <<session, nsess>>
       ELSE IF "refreshing" \in th THEN
           LET c == CatchInterceptor(st3, x, th, s) IN
           /\ Commit(c.st)
           /\ Deliver(c.st, r, attempt, "reject", IF c.threw THEN x ELSE error, error, held)
           /\ session' = [session EXCEPT ![s] = [begun EXCEPT !.initiator = "done"]]
           /\ nsess' = s
       ELSE IF "refreshTokenFn" \in th THEN
           LET c == CatchInterceptor(st3, x, th, s) IN
           /\ Commit(c.st)
           /\ Deliver(c.st, r, attempt, "reject", IF c.threw THEN x ELSE error, error, held)
           /\ session' = [session EXCEPT ![s] =
                  [begun EXCEPT !.initiator = "done", !.timer = "armed",
                                !.calls = 1, !.fn = "threw"]]
           /\ nsess' = s
       ELSE
           /\ Commit(st4)
           /\ Deliver(st4, r, attempt, "handling", NoValue, error, held)
           /\ session' = [session EXCEPT ![s] =
                  [begun EXCEPT !.initiator = "awaiting", !.timer = "armed",
                                !.calls = 1, !.fn = "running", !.race.state = "pending"]]
           /\ nsess' = s

\* the initiator of session s after `await refreshPromise`, to its return.
\* k: the call of authHeaderFormatter that throws, when it is among th.
Continuation(s, th, k, x) ==
    LET r == session[s].request
        race == session[s].race
        st0 == Current
        n == Len(st0.pendingRequests)
        st1 == Notify(st0, "success", NoValue, s)
        try == IF race.state = "rejected" THEN [st |-> st0, threw |-> TRUE, exc |-> race.reason]
               ELSE IF "success" \in th THEN [st |-> st1, threw |-> TRUE, exc |-> x]
               ELSE IF "authHeaderFormatter" \in th /\ Truthy(race.token) /\ k <= n
                    THEN [st |-> ResolveEntries(st1, k - 1, race.token, s),
                          threw |-> TRUE, exc |-> x]
               ELSE [st |-> ClearPending(ResolveEntries(st1, n, race.token, s)),
                     threw |-> FALSE, exc |-> NoValue]
        caught == IF try.threw THEN CatchRefresh(try.st, try.exc, th, s)
                  ELSE [st |-> try.st, threw |-> FALSE]
        final == FinallyRefresh(caught.st)
        outer == IF caught.threw THEN CatchInterceptor(final, x, th, s)
                 ELSE [st |-> final, threw |-> FALSE]
    IN
    /\ session[s].initiator = "awaiting"
    /\ race.state \in {"fulfilled", "rejected"}
    /\ Commit(outer.st)
    /\ IF caught.threw
       THEN Deliver(outer.st, r, session[s].attempt, "reject",
                    IF outer.threw THEN x ELSE session[s].error,
                    returned[r].error, returned[r].held)
       ELSE Deliver(outer.st, r, session[s].attempt, "retryPromise", NoValue,
                    returned[r].error, returned[r].held)
    /\ session' = [session EXCEPT ![s].initiator = "done"]
    /\ nsess' = nsess

\* ---------------------------------------------------------------- actions
Held == {NULL, "old"}

\* requests are numbered in the order their first failure reaches the handler
Arrived == Cardinality({r \in Requests : returned[r].kind # "none"})

\* a request's first attempt fails and the handler runs; its callbacks return
HandleFailure(r) ==
    /\ r = Arrived + 1
    /\ \E error \in Failures(r), held \in Held :
           Handler(r, "first", error, held, {}, NoValue)

\* a failure that carries no request description: `if (!originalRequest) return Promise.reject(error)`
HandleFailureNoConfig(r) ==
    /\ r = Arrived + 1
    /\ returned' = [returned EXCEPT ![r] =
           [kind |-> "reject", value |-> AxiosError(0, FALSE, 0),
            error |-> AxiosError(0, FALSE, 0), held |-> NULL]]
    /\ UNCHANGED <<isRefreshing, pendingRequests, refreshPromise, request, retryPromise,
                   replay, session, nsess, statusLog>>
    /\ UNCHANGED others

\* the re-issued request fails and the handler runs for it again
HandleReplayFailure(r) ==
    /\ replay[r].state = "flying"
    /\ \E error \in ReplayFailures(r), held \in Held :
           Handler(r, "replay", error, held, {}, NoValue)

\* the re-issued request succeeds
ReplaySucceeds(r) ==
    /\ replay[r].state = "flying"
    /\ replay' = [replay EXCEPT ![r].state = "fulfilled", ![r].value = Value("response", FALSE)]
    /\ UNCHANGED <<isRefreshing, pendingRequests, refreshPromise, request, retryPromise,
                   returned, session, nsess, statusLog>>
    /\ UNCHANGED others

\* (a race in which the timeout overrides an earlier settlement)
RaceSettleTimeoutWins(race, outcome) ==
    IF race.state = "pending" \/ outcome.reason = TimeoutError THEN outcome ELSE race

\* (a race that takes every settlement, the last one standing)
RaceSettleLastWins(race, outcome) == outcome

\* Promise.race: the first settlement wins, later ones change nothing
RaceSettle(race, outcome) == IF race.state = "pending" THEN outcome ELSE race

\* refreshTokenFn() of session s resolves with token t
RefreshResolves(s, t) ==
    /\ session[s].fn = "running"
    /\ session' = [session EXCEPT ![s].fn = "settled",
           ![s].race = RaceSettle(@, [state |-> "fulfilled", token |-> t, reason |-> NoValue])]
    /\ UNCHANGED <<isRefreshing, pendingRequests, refreshPromise, request, retryPromise,
                   replay, returned, nsess, statusLog>>
    /\ UNCHANGED others

\* refreshTokenFn() of session s rejects with v
RefreshRejects(s, v) ==
    /\ session[s].fn = "running"
    /\ session' = [session EXCEPT ![s].fn = "settled",
           ![s].race = RaceSettle(@, [state |-> "rejected", token |-> NULL, reason |-> v])]
    /\ UNCHANGED <<isRefreshing, pendingRequests, refreshPromise, request, retryPromise,
                   replay, returned, nsess, statusLog>>
    /\ UNCHANGED others

\* setTimeout(() => reject(new Error("Token refresh timeout")), refreshTimeout) of session s
TimerFires(s) ==
    /\ session[s].timer = "armed"
    /\ session' = [session EXCEPT ![s].timer = "fired",
           ![s].race = RaceSettle(@, [state |-> "rejected", token |-> NULL,
                                      reason |-> TimeoutError])]
    /\ UNCHANGED <<isRefreshing, pendingRequests, refreshPromise, request, retryPromise,
                   replay, returned, nsess, statusLog>>
    /\ UNCHANGED others

\* the initiator resumes after the await; its callbacks return
Resume(s) == Continuation(s, {}, 0, NoValue)

\* the same stretches when callbacks throw
HandleFailureThrowing(r) ==
    /\ r = Arrived + 1
    /\ \E error \in Failures(r), held \in Held, x \in ThrownValues,
          th \in HandlerThrows :
           Handler(r, "first", error, held, th, x)

HandleReplayFailureThrowing(r) ==
    /\ replay[r].state = "flying"
    /\ \E error \in ReplayFailures(r), held \in Held, x \in ThrownValues,
          th \in {{"shouldRefreshToken"}, {"shouldRefreshToken", "error"}} :
           Handler(r, "replay", error, held, th, x)

ResumeThrowing(s) ==
    \E x \in ThrownValues, k \in Requests, th \in ResumeThrows :
        Continuation(s, th, k, x)

Next ==
    \/ \E r \in Requests : HandleFailure(r)
    \/ \E r \in Requests : HandleFailureNoConfig(r)
    \/ \E r \in Requests : HandleReplayFailure(r)
    \/ \E r \in Requests : ReplaySucceeds(r)
    \/ \E s \in Sessions, t \in RefreshResults : RefreshResolves(s, t)
    \/ \E s \in Sessions, v \in RefreshRejections : RefreshRejects(s, v)
    \/ \E s \in Sessions : TimerFires(s)
    \/ \E s \in Sessions : Resume(s)

NextThrowing ==
    \/ Next
    \/ \E r \in Requests : HandleFailureThrowing(r)
    \/ \E r \in Requests : HandleReplayFailureThrowing(r)
    \/ \E s \in Sessions : ResumeThrowing(s)

\* every callback returns normally
Spec == Init /\ [][Next]_vars

\* callbacks may throw
SpecThrowing == Init /\ [][NextThrowing]_vars

\* ---------------------------------------------------------------- observations
\* (an entry resolved with no value, not with the re-issued request)
CallerNotAdopting(r) ==
    IF returned[r].kind = "reject"
    THEN [state |-> "rejected", value |-> returned[r].value]
    ELSE IF retryPromise[r].state = "resolved"
    THEN [state |-> "fulfilled", value |-> NoValue]
    ELSE [state |-> "pending", value |-> NoValue]

\* the promise the original caller of request r holds
Caller(r) ==
    LET ret == returned[r]
        p == retryPromise[r]
        a == replay[r]
    IN  IF ret.kind = "none" THEN [state |-> "inflight", value |-> NoValue]
        ELSE IF ret.kind = "handling" THEN [state |-> "pending", value |-> NoValue]
        ELSE IF ret.kind = "reject" THEN [state |-> "rejected", value |-> ret.value]
        ELSE IF p.state = "rejected" THEN [state |-> "rejected", value |-> p.value]
        ELSE IF p.state = "resolved" /\ a.state = "fulfilled"
             THEN [state |-> "fulfilled", value |-> a.value]
        ELSE IF p.state = "resolved" /\ a.state = "rejected"
             THEN [state |-> "rejected", value |-> a.value]
        ELSE [state |-> "pending", value |-> NoValue]

Range(seq) == {seq[i] : i \in DOMAIN seq}

\* the statuses onStatusChange received from the handler that ran for session s
NotifiedBy(s) == SelectSeq(statusLog, LAMBDA e : e.by = s)
StatusesBy(s) == [i \in DOMAIN NotifiedBy(s) |-> NotifiedBy(s)[i].status]

\* all invocations of refreshTokenFn so far
RECURSIVE CallsUpTo(_)
CallsUpTo(n) == IF n = 0 THEN 0 ELSE session[n].calls + CallsUpTo(n - 1)
TotalCalls == CallsUpTo(MaxSessions)

Admitted(r) == retryPromise[r].state # "none"
Batch(s) == {r \in Requests : Admitted(r) /\ retryPromise[r].session = s}
Awaiting == {s \in Sessions : session[s].initiator = "awaiting"}

\* the initiator of session s resumes in this step
Resumes(s) == session[s].initiator = "awaiting" /\ session'[s].initiator = "done"

\* ---------------------------------------------------------------- claims
\* What a request admitted to session s must have become once s was settled from
\* the outcome of its one race: replayed on success, rejected with a refresh-failed
\* error on rejection or timeout.
SettledFromOutcome(r, s) ==
    LET p == retryPromise[r]
        race == session[s].race
    IN  /\ p.settledBy = s
        /\ session[s].initiator = "done"
        /\ race.state = "fulfilled" => p.state = "resolved" /\ replay[r].count = 1
        /\ race.state = "rejected" =>
              /\ p.state = "rejected"
              /\ p.value.message = "Token refresh failed"
              /\ replay[r].count = 0

\* C1 (state part): every admitted request belongs to a started session whose
\* refreshTokenFn was invoked exactly once, its caller holds the promise of its
\* entry, and once settled it was settled by that session from that one outcome.
C1_BatchSettled ==
    \A r \in Requests : Admitted(r) =>
        LET s == retryPromise[r].session IN
        /\ s \in 1..nsess
        /\ session[s].calls = 1
        /\ returned[r].kind \in {"handling", "retryPromise"}
        /\ retryPromise[r].state = "pending" => s \in Awaiting
        /\ retryPromise[r].state # "pending" => SettledFromOutcome(r, s)

\* C1 (step part): while a refresh is in progress no step invokes refreshTokenFn,
\* and a step that starts a refresh invokes it once.
C1_OneInvocation ==
    /\ isRefreshing => TotalCalls' = TotalCalls
    /\ TotalCalls' <= TotalCalls + 1

\* C1: single-flight. N eligible failures that arrive from a state with no refresh
\* in progress, all before that refresh settles, cause exactly one invocation of
\* refreshTokenFn, and all N promises are settled from its outcome.
C1_SingleFlight == [](C1_BatchSettled /\ TotalCalls = nsess) /\ [][C1_OneInvocation]_vars

\* three failures shared one refresh and were all replayed by it
C1_Witness ==
    \E s \in Sessions :
        /\ session[s].initiator = "done"
        /\ session[s].calls = 1
        /\ Cardinality({r \in Batch(s) : retryPromise[r].state = "resolved"}) >= 3

\* C2: invariant I1. At most one handler invocation is in the initiator role: it
\* has set isRefreshing and has not yet finished settling its session.
C2_AtMostOneInitiator == Cardinality(Awaiting) <= 1

\* C3 (step part): when the initiator resumes, every joiner that was admitted while
\* the race was still open and is in the wait set at this moment is settled by this
\* very step, from this session's outcome, and leaves the wait set.
C3_FanOutAtSettlement ==
    \A s \in Sessions : Resumes(s) =>
        \A r \in Range(pendingRequests) : retryPromise[r].role = "joiner" =>
            /\ retryPromise[r].session = s
            /\ retryPromise[r].state = "pending"
            /\ retryPromise'[r].settledBy = s
            /\ r \notin Range(pendingRequests')
            /\ session[s].race.state = "fulfilled" =>
                  /\ retryPromise'[r].state = "resolved"
                  /\ replay'[r].count = replay[r].count + 1
                  /\ replay'[r].state = "flying"
            /\ session[s].race.state = "rejected" =>
                  /\ retryPromise'[r].state = "rejected"
                  /\ retryPromise'[r].value.message = "Token refresh failed"

\* C3 (state part): a joiner waits in the wait set of the session in progress
\* until it is settled.
C3_JoinerWaits ==
    \A r \in Requests : retryPromise[r].role = "joiner" /\ retryPromise[r].state = "pending" =>
        /\ r \in Range(pendingRequests)
        /\ retryPromise[r].session \in Awaiting

\* C3: late-joiner inclusion. A failure admitted after refreshTokenFn was invoked and
\* before the race settled is settled in that session's fan-out, which iterates the
\* wait set as it is at settlement time.
C3_LateJoinerIncluded == []C3_JoinerWaits /\ [][C3_FanOutAtSettlement]_vars

\* two late joiners of one session were replayed by its fan-out
C3_Witness ==
    \E s \in Sessions :
        /\ session[s].initiator = "done"
        /\ Cardinality({r \in Batch(s) : /\ retryPromise[r].role = "joiner"
                                          /\ retryPromise[r].settledBy = s
                                          /\ retryPromise[r].state = "resolved"}) >= 2

\* C4: invariant I3. Every admitted entry has its resolver or rejecter invoked
\* exactly once in total, leaves the wait set in the step that settles it, and is
\* never left in the wait set, unsettled, after its session ended.
C4_SettledExactlyOnce ==
    \A r \in Requests : Admitted(r) =>
        LET p == retryPromise[r] IN
        /\ p.resolveCalls + p.rejectCalls <= 1
        /\ p.state = "pending" <=> p.resolveCalls + p.rejectCalls = 0
        /\ p.state = "pending" <=> r \in Range(pendingRequests)
        /\ p.state = "pending" => Awaiting # {}

\* the session was force-failed by its timer: the timeout won its race
TimedOut(s) ==
    /\ session[s].race.state = "rejected"
    /\ session[s].race.reason = TimeoutError
    /\ session[s].timer = "fired"

\* C5 (state part): after a session that timed out, all its requests are rejected
\* with a "Token refresh failed" error whose cause is the timeout error, and
\* onStatusChange received `refreshing` then `failed`.
C5_TimedOutRejected ==
    \A s \in Sessions : TimedOut(s) /\ session[s].initiator = "done" =>
        /\ \A r \in Batch(s) :
              /\ retryPromise[r].state = "rejected"
              /\ retryPromise[r].value = RefreshFailedError(TimeoutError)
              /\ Caller(r) = [state |-> "rejected", value |-> RefreshFailedError(TimeoutError)]
        /\ StatusesBy(s) = <<"refreshing", "failed">>
        /\ NotifiedBy(s)[2].error = TimeoutError

\* C5 (step part): the step that settles the timed-out session clears it.
C5_TimedOutCleared ==
    \A s \in Sessions : Resumes(s) /\ TimedOut(s) =>
        /\ isRefreshing' = FALSE
        /\ pendingRequests' = <<>>
        /\ refreshPromise' = 0
        /\ \A r \in Range(pendingRequests) :
              retryPromise'[r].value = RefreshFailedError(TimeoutError)

\* C5: timeout force-fail. If refreshTokenFn does not settle before the timer
\* fires, every request in the wait set is rejected with "Token refresh failed"
\* caused by the timeout error, the statuses are refreshing then failed, and the
\* session is cleared.
C5_TimeoutForceFail == []C5_TimedOutRejected /\ [][C5_TimedOutCleared]_vars

\* refreshTokenFn never settled, the timer fired, initiator and joiner were rejected
C5_Witness ==
    \E s \in Sessions :
        /\ TimedOut(s) /\ session[s].initiator = "done" /\ session[s].fn = "running"
        /\ Cardinality({r \in Batch(s) : Caller(r).state = "rejected"}) >= 2

\* C6: state reset. Whenever no session is in progress (the last one ended by any
\* route), isRefreshing is false and the wait set is empty.
C6_StateReset == Awaiting = {} => (~ isRefreshing /\ pendingRequests = <<>>)

\* a re-issued request fails again in this step
FailsAgain(r) == replay[r].state = "flying" /\ replay'[r].state \in {"rejected", "requeued"}

\* C7 (step part): a request whose _retry mark is set and that fails again is
\* rejected with its own failure, and the step changes nothing else.
C7_RejectedUntouched ==
    \A r \in Requests : FailsAgain(r) =>
        /\ request[r]._retry
        /\ replay'[r].state = "rejected"
        /\ replay'[r].value \in ReplayFailures(r)
        /\ UNCHANGED <<isRefreshing, pendingRequests, refreshPromise, request, retryPromise,
                       returned, session, nsess, statusLog>>

\* C7 (state part): no request is replayed more than once, and only marked
\* requests are ever in the wait set or replayed.
C7_ReplayedAtMostOnce ==
    \A r \in Requests :
        /\ replay[r].count <= 1
        /\ Occurrences(pendingRequests, r) <= 1
        /\ (replay[r].count > 0 \/ r \in Range(pendingRequests)) => request[r]._retry

\* C7: no double-retry. A marked request that fails again is rejected at once with
\* its own failure, never enters the wait set, starts no refresh, emits no status;
\* so a request is replayed at most once.
C7_NoDoubleRetry == []C7_ReplayedAtMostOnce /\ [][C7_RejectedUntouched]_vars

\* a replayed request failed again and its caller got that failure
C7_Witness ==
    \E r \in Requests :
        /\ replay[r].state = "rejected"
        /\ Caller(r) = [state |-> "rejected", value |-> AxiosError(r, TRUE, Unauthorized)]

\* C8: nothing is dropped. A caller whose promise is unsettled is waiting for
\* something that will come: its replay in flight, or an initiator that is still
\* to resume (by its refresh or its timer).
C8_NothingDropped ==
    \A r \in Requests : Caller(r).state = "pending" =>
        replay[r].state = "flying" \/ Awaiting # {}

\* C9: on refresh failure every waiting request is rejected with a new "Token
\* refresh failed" error whose cause is the very value the race rejected with.
C9_CauseCarried ==
    \A r \in Requests :
        LET p == retryPromise[r] IN
        (p.state = "rejected" /\ p.settledBy # 0 /\ session[p.settledBy].race.state = "rejected") =>
            /\ p.value.message = "Token refresh failed"
            /\ p.value.originalError = session[p.settledBy].race.reason

\* C10 (step part): when the initiator resumes on a refresh that succeeded with a
\* concrete token, every request in the wait set gets the header "Bearer <token>",
\* and is re-issued, once, with that header.
C10_RewriteAtFanOut ==
    \A s \in Sessions :
        (Resumes(s) /\ session[s].race.state = "fulfilled" /\ session[s].race.token \in Tokens) =>
            \A r \in Range(pendingRequests) :
                /\ request'[r].Authorization = "Bearer " \o session[s].race.token
                /\ replay'[r].sent = "Bearer " \o session[s].race.token
                /\ replay'[r].state = "flying"
                /\ replay[r].count = 0 /\ replay'[r].count = 1

\* C10 (state part): a replayed request was re-issued once, carrying the header it
\* now has.
C10_ReissuedOnce ==
    \A r \in Requests : replay[r].count > 0 =>
        replay[r].count = 1 /\ replay[r].sent = request[r].Authorization

\* C10: credential rewrite. On success with a concrete token t every request in the
\* wait set at settlement time is re-issued exactly once, with Authorization set to
\* authHeaderFormatter(t), by default "Bearer " + t.
C10_CredentialRewrite == []C10_ReissuedOnce /\ [][C10_RewriteAtFanOut]_vars

\* three requests were re-issued with "Bearer abc"
C10_Witness ==
    Cardinality({r \in Requests : replay[r].count = 1 /\ replay[r].sent = "Bearer abc"}) >= 3

\* ---------------------------------------------------------------- C11
\* the failures the handler passes through: no request description, or a status
\* (500) the default classifier declines
PassedThrough(r) ==
    /\ returned[r].kind # "none"
    /\ \/ returned[r].error.config = 0
       \/ returned[r].error.hasResponse /\ returned[r].error.status = 500

\* a handler stretch that rejects request r's first failure directly
RejectsDirectly(r) == returned[r].kind = "none" /\ returned'[r].kind = "reject"

\* C11 (state part): a failure without a request description, or one the
\* classifier declines, is rejected with that very failure and is never admitted
\* to the wait set.
C11_PassedThroughRejected ==
    \A r \in Requests :
        PassedThrough(r) =>
            /\ returned[r].kind = "reject"
            /\ returned[r].value = returned[r].error
            /\ Caller(r) = [state |-> "rejected", value |-> returned[r].error]
            /\ ~ Admitted(r)
            /\ ~ request[r]._retry

\* C11 (step part): the stretch that rejects a failure directly, or rejects the
\* failure of an already re-issued request, changes neither isRefreshing nor the
\* wait set, calls refreshTokenFn for nobody and notifies no status.
C11_PassThroughFrame ==
    [][\A r \in Requests :
          (RejectsDirectly(r) \/ FailsAgain(r)) =>
              UNCHANGED <<isRefreshing, pendingRequests, refreshPromise, request,
                          retryPromise, session, nsess, statusLog>>]_vars

\* C11: a non-retryable failure is passed through: rejected with the original
\* error, with no effect on the flag, the wait set, refreshTokenFn or the status
\* log, also while another session is in progress.
C11_PassThrough ==
    /\ [](C11_PassedThroughRejected)
    /\ C11_PassThroughFrame
    /\ [][\A r \in Requests :
             FailsAgain(r) => replay'[r].value \in ReplayFailures(r)]_vars

\* a 500 and a failure without request description were passed through while
\* session 1 was in progress with its initiator still in the wait set
C11_Witness ==
    /\ isRefreshing /\ session[1].initiator = "awaiting"
    /\ pendingRequests = <<1>>
    /\ returned[2].kind = "reject" /\ returned[2].error.config = 2
    /\ returned[2].error.status = 500 /\ returned[2].held # NULL
    /\ returned[3].kind = "reject" /\ returned[3].error.config = 0
    /\ statusLog = <<[status |-> "refreshing", error |-> NoValue, by |-> 1]>>
    /\ TotalCalls = 1

\* ---------------------------------------------------------------- C12
TerminalStatuses == {"success", "failed", "error"}

\* request r was rejected with the refresh-failed error by session s
RejectedAsRefreshFailed(r, s) ==
    /\ retryPromise[r].state = "rejected"
    /\ retryPromise[r].settledBy = s
    /\ retryPromise[r].value.message = "Token refresh failed"

\* C12: each session notifies "refreshing" once and then at most one terminal
\* status (exactly one once its initiator has returned), and a session that
\* notified "success" neither notifies "failed" or "error" nor rejects a waiting
\* request with the refresh-failed error.
C12_OneOutcome ==
    \A s \in 1..nsess :
        /\ \/ StatusesBy(s) = <<"refreshing">> /\ session[s].initiator = "awaiting"
           \/ \E t \in TerminalStatuses : StatusesBy(s) = <<"refreshing", t>>
        /\ "success" \in Range(StatusesBy(s)) =>
               \A r \in Requests : ~ RejectedAsRefreshFailed(r, s)

\* ---------------------------------------------------------------- C13
\* the outer catch found a session active in this step: it called
\* onStatusChange("error", error)
ErrorNotified ==
    /\ Len(statusLog') = Len(statusLog) + 1 \/ Len(statusLog') = Len(statusLog) + 2
    /\ statusLog'[Len(statusLog')].status = "error"

\* the requests whose entries the wait set holds when the outer catch runs
InWaitSetAtCatch ==
    Range(pendingRequests) \cup {r \in Requests : ~ Admitted(r) /\ retryPromise'[r].state # "none"}

\* C13: when an internal exception is caught while a session is active, "error"
\* is notified, every request in the wait set is rejected with the exception,
\* the wait set is emptied and isRefreshing is cleared.
C13_SafetyNet ==
    [][ErrorNotified =>
          /\ ~ isRefreshing'
          /\ pendingRequests' = <<>>
          /\ \A r \in InWaitSetAtCatch :
                 /\ retryPromise'[r].state # "pending"
                 /\ retryPromise[r].state # "resolved" =>
                        /\ retryPromise'[r].state = "rejected"
                        /\ retryPromise'[r].value \in ThrownValues]_vars

\* C13 (without the identity of the rejection value)
C13_SafetyNetSettles ==
    [][ErrorNotified =>
          /\ ~ isRefreshing'
          /\ pendingRequests' = <<>>
          /\ \A r \in InWaitSetAtCatch : retryPromise'[r].state # "pending"]_vars

\* ---------------------------------------------------------------- C14
\* an error of kind "interceptor error" that wraps a thrown value as its cause
InterceptorError(cause) ==
    [message |-> "interceptor error", isError |-> TRUE, cause |-> cause]

\* the sessions that an exception ended before their initiator reached the await
EndedByException == {s \in 1..nsess : session[s].fn \in {"notcalled", "threw"}}

\* the requests whose entry an outer catch rejected: by a handler that was no
\* session's initiator, or by the handler of a session the exception ended
RejectedByOuterCatch ==
    {r \in Requests : /\ retryPromise[r].state = "rejected"
                      /\ retryPromise[r].settledBy \in {0} \cup EndedByException}

\* C14: after an internal exception every affected caller, the initiator and
\* every waiting joiner, is rejected with a new "interceptor error" that wraps
\* the exception, not with the raw exception nor with its original failure.
C14_InterceptorErrorSurfaced ==
    /\ \A s \in EndedByException :
           /\ Caller(session[s].request).state = "rejected"
           /\ \E x \in ThrownValues : Caller(session[s].request).value = InterceptorError(x)
    /\ \A r \in RejectedByOuterCatch :
           returned[r].kind = "retryPromise" =>
               \E x \in ThrownValues : Caller(r).value = InterceptorError(x)

\* ---------------------------------------------------------------- C15
\* The default classifier on every kind of failure: no response, 401, and two
\* other statuses, each with and without a held credential.
ClassifierFailures(r) ==
    {AxiosError(r, FALSE, 0)} \cup {AxiosError(r, TRUE, c) : c \in {Unauthorized, 403, 500}}

\* the handler runs for request r's failure and evaluates the classifier
Classify(r) ==
    /\ r = Arrived + 1
    /\ \E error \in ClassifierFailures(r), held \in Held :
           Handler(r, "first", error, held, {}, NoValue)

NextClassifier == \E r \in Requests : Classify(r)

SpecClassifier == Init /\ [][NextClassifier]_vars

\* the truth table of the claim, on the failure and the credential the handler saw
ShouldRefresh(r) ==
    /\ ~ returned[r].error.hasResponse \/ returned[r].error.status = 401
    /\ returned[r].held # NULL

\* C15 (state part): a first failure is admitted exactly when its status is 401
\* or it has no response, and a credential is held; otherwise it is rejected.
C15_TruthTable ==
    \A r \in Requests :
        returned[r].kind # "none" =>
            /\ Admitted(r) <=> ShouldRefresh(r)
            /\ returned[r].kind = "reject" <=> ~ ShouldRefresh(r)

\* C15: the default shouldRefreshToken is true exactly when (the status is 401
\* or the failure has no response) and getAuthToken() holds a credential, and a
\* failure it declines leaves the coordinator's state as it was.
C15_DefaultClassifier ==
    /\ [](C15_TruthTable)
    /\ [][\A r \in Requests :
             (returned[r].kind = "none" /\ returned'[r].kind # "none" /\ ~ ShouldRefresh(r)')
                 => UNCHANGED <<isRefreshing, pendingRequests, refreshPromise, request,
                                retryPromise, replay, session, nsess, statusLog>>]_vars

\* a network failure with a credential was admitted, a 401 without a credential
\* and a 403 with one were declined
C15_Witness ==
    /\ Arrived = 3
    /\ ~ returned[1].error.hasResponse /\ returned[1].held # NULL /\ Admitted(1)
    /\ returned[2].error.status = 401 /\ returned[2].held = NULL
    /\ returned[2].kind = "reject"
    /\ returned[3].error.status = 403 /\ returned[3].held # NULL
    /\ returned[3].kind = "reject"
    /\ pendingRequests = <<1>>

\* ---------------------------------------------------------------- C16
\* Two coordinators made by two calls of createRefreshTokenPlugin, each installed
\* on its own axios instance. The variables describe instance `focus`; `peer`
\* holds the other one. A handler reads and writes the closure state of the call
\* that created it, so the actions above are the steps of instance `focus`.
MaxTwoArrivals == 2

Instance ==
    [isRefreshing |-> isRefreshing, pendingRequests |-> pendingRequests,
     refreshPromise |-> refreshPromise, request |-> request,
     retryPromise |-> retryPromise, replay |-> replay, returned |-> returned,
     session |-> session, nsess |-> nsess, statusLog |-> statusLog]

\* (closure state hoisted out of createRefreshTokenPlugin: one flag, one wait
\* set and one refreshPromise for all instances)
ClosureShared(mine, theirs) ==
    [theirs EXCEPT !.isRefreshing = mine.isRefreshing,
                   !.pendingRequests = mine.pendingRequests,
                   !.refreshPromise = mine.refreshPromise]

\* the state the handlers of the other instance work on: `pendingRequests`,
\* `isRefreshing` and `refreshPromise` are declared inside createRefreshTokenPlugin,
\* so each call has its own
Closure(mine, theirs) == theirs

\* the next step is taken by the other instance
SwitchInstance ==
    LET i == Closure(Instance, peer) IN
    /\ focus' = 3 - focus
    /\ peer' = Instance
    /\ isRefreshing' = i.isRefreshing
    /\ pendingRequests' = i.pendingRequests
    /\ refreshPromise' = i.refreshPromise
    /\ request' = i.request
    /\ retryPromise' = i.retryPromise
    /\ replay' = i.replay
    /\ returned' = i.returned
    /\ session' = i.session
    /\ nsess' = i.nsess
    /\ statusLog' = i.statusLog
    /\ UNCHANGED <<requestTracker, pollPromise>>

ArrivedAt(i) == Cardinality({r \in Requests : i.returned[r].kind # "none"})
TwoRoom == ArrivedAt(Instance) + ArrivedAt(peer) < MaxTwoArrivals

NextTwo ==
    \/ TwoRoom /\ \E r \in Requests : HandleFailure(r)
    \/ TwoRoom /\ \E r \in Requests : HandleFailureNoConfig(r)
    \/ \E r \in Requests : HandleReplayFailure(r)
    \/ \E r \in Requests : ReplaySucceeds(r)
    \/ \E s \in Sessions, t \in RefreshResults : RefreshResolves(s, t)
    \/ \E s \in Sessions, v \in RefreshRejections : RefreshRejects(s, v)
    \/ \E s \in Sessions : TimerFires(s)
    \/ \E s \in Sessions : Resume(s)
    \/ SwitchInstance

SpecTwo == Init /\ [][NextTwo]_vars

\* the state of instance i
InstanceState(i) == IF focus = i THEN Instance ELSE peer

\* C16 (step part): a step of one instance leaves the other instance's flag,
\* wait set, promises, requests, sessions and status log as they were.
C16_OtherUntouched ==
    [][\A i \in {1, 2} :
          (focus' # focus \/ i # focus) => InstanceState(i)' = InstanceState(i)]_vars

\* C16 (state part): each instance invokes its own refreshTokenFn once per
\* session of its own, and settles its waiting requests by its own sessions.
C16_OwnSessions ==
    \A i \in {1, 2} :
        LET it == InstanceState(i) IN
        /\ \A s \in Sessions : it.session[s].calls = IF s <= it.nsess THEN 1 ELSE 0
        /\ \A r \in Requests :
               it.retryPromise[r].state \in {"resolved", "rejected"} =>
                   /\ it.retryPromise[r].settledBy = it.retryPromise[r].session
                   /\ it.session[it.retryPromise[r].session].initiator = "done"

\* C16: two coordinators never share a session: a failure handled by one changes
\* nothing of the other, and each invokes its own refreshTokenFn once per session.
C16_InstanceIsolation == C16_OtherUntouched /\ [](C16_OwnSessions)

\* one instance is still refreshing with its request waiting while the other
\* began and finished a session of its own
C16_Witness ==
    \E i \in {1, 2} :
        LET mine == InstanceState(i)
            theirs == InstanceState(3 - i)
        IN  /\ mine.isRefreshing /\ mine.pendingRequests = <<1>>
            /\ mine.retryPromise[1].state = "pending"
            /\ mine.session[1].calls = 1 /\ mine.session[1].fn = "running"
            /\ ~ theirs.isRefreshing /\ theirs.pendingRequests = <<>>
            /\ theirs.session[1].calls = 1 /\ theirs.session[1].initiator = "done"
            /\ theirs.retryPromise[1].state = "resolved"

\* ------------------------------------------- the polling implementation (src/index.js)
\* The earlier implementation: pendingRequests is a WeakMap (here the set of
\* requests it maps to true), requestTracker lists them, a joiner polls
\* isRefreshing every 100 ms, and refreshTokenFn is awaited without a timeout.
False == "false"
Undefined == Value("undefined", FALSE)

\* a JavaScript value in a condition
JsTruthy(v) == v # False /\ v # NULL /\ v # ""

\* the default classifier of src/index.js: `(...) && getAuthToken()`
shouldRefreshTokenPolling(error, held) ==
    LET statusCode == IF error.hasResponse THEN error.status ELSE NetworkError
    IN  IF statusCode = Unauthorized \/ statusCode = NetworkError THEN held ELSE False

InitPolling ==
    /\ Installed([FreshInstance EXCEPT !.pendingRequests = {}])
    /\ focus = 1
    /\ peer = FreshInstance
    /\ requestTracker = <<>>
    /\ pollPromise = [r \in Requests |-> NoPoll]

\* what the polling handlers leave alone
notPolling == <<refreshPromise, retryPromise, focus, peer>>

\* axios(request): the request is sent again with its current header
Reissue(st, r) ==
    [st EXCEPT !.replay[r] = [state |-> "flying", value |-> NoValue,
                              count |-> @.count + 1, sent |-> st.request[r].Authorization]]

\* for (let i = requestTracker.length - 1; i >= 0; i--) { ... }, from index i down;
\* found: the loop left through `return axios(request)`
RECURSIVE TrackerLoop(_, _, _, _)
TrackerLoop(st, i, newToken, originalRequest) ==
    IF i = 0 THEN [st |-> st, found |-> FALSE]
    ELSE LET r == st.requestTracker[i] IN
         IF r \notin st.pendingRequests
         THEN TrackerLoop(st, i - 1, newToken, originalRequest)
         ELSE LET st1 == IF Truthy(newToken)
                         THEN [st EXCEPT !.request[r].Authorization = "Bearer " \o newToken]
                         ELSE st
                  st2 == [st1 EXCEPT !.pendingRequests = @ \ {r},
                                     !.requestTracker =
                                         SubSeq(@, 1, i - 1) \o SubSeq(@, i + 1, Len(@))]
                  st3 == Reissue(st2, r)
              IN  IF r = originalRequest THEN [st |-> st3, found |-> TRUE]
                  ELSE TrackerLoop(st3, i - 1, newToken, originalRequest)

\* requestTracker.forEach((request) => pendingRequests.delete(request)); requestTracker.length = 0
ForgetTracked(st) ==
    [st EXCEPT !.pendingRequests = @ \ Range(st.requestTracker), !.requestTracker = <<>>]

\* async (error) => { ... } of src/index.js for request r's first failure, from
\* its entry to its return or to `await refreshTokenFn()`
PollingHandleFailure(r) ==
    /\ r = Arrived + 1
    /\ \E error \in Failures(r), held \in Held :
        LET eligible == JsTruthy(shouldRefreshTokenPolling(error, held)) /\ ~ request[r]._retry
            s == nsess + 1
            begun == [NoSession EXCEPT !.request = r, !.error = error]
            hands(kind, value) ==
                [returned EXCEPT ![r] =
                    [kind |-> kind, value |-> value, error |-> error, held |-> held]]
        IN
        /\ (eligible /\ ~ isRefreshing) => nsess < MaxSessions
        /\ IF ~ eligible THEN
               /\ returned' = hands("reject", error)
               /\ UNCHANGED <<isRefreshing, pendingRequests, requestTracker, request,
                              statusLog, session, nsess, pollPromise>>
           ELSE
               /\ pendingRequests' = pendingRequests \cup {r}
               /\ requestTracker' = Append(requestTracker, r)
               /\ request' = [request EXCEPT ![r]._retry = TRUE]
               /\ IF ~ isRefreshing THEN
                      /\ isRefreshing' = TRUE
                      /\ statusLog' = Append(statusLog,
                             [status |-> "refreshing", error |-> NoValue, by |-> s])
                      /\ session' = [session EXCEPT ![s] =
                             [begun EXCEPT !.initiator = "awaiting", !.calls = 1,
                                           !.fn = "running", !.race.state = "pending"]]
                      /\ nsess' = s
                      /\ returned' = hands("handling", NoValue)
                      /\ UNCHANGED pollPromise
                  ELSE
                      /\ returned' = hands("poll", NoValue)
                      /\ pollPromise' = [pollPromise EXCEPT ![r] =
                             [state |-> "pending", value |-> NoValue, session |-> nsess]]
                      /\ UNCHANGED <<isRefreshing, statusLog, session, nsess>>
    /\ UNCHANGED replay
    /\ UNCHANGED notPolling

\* a re-issued request fails again: its _retry mark is set, so the handler
\* goes straight to `return Promise.reject(error)`
PollingHandleReplayFailure(r) ==
    /\ replay[r].state = "flying"
    /\ \E error \in ReplayFailures(r) :
           replay' = [replay EXCEPT ![r].state = "rejected", ![r].value = error]
    /\ UNCHANGED <<isRefreshing, pendingRequests, requestTracker, request, statusLog,
                   session, nsess, returned, pollPromise>>
    /\ UNCHANGED notPolling

\* the initiator of session s after `await refreshTokenFn()`, to its return
PollingResume(s) ==
    LET r == session[s].request
        race == session[s].race
        st0 == [pendingRequests |-> pendingRequests, requestTracker |-> requestTracker,
                request |-> request, replay |-> replay]
        loop == TrackerLoop(st0, Len(requestTracker), race.token, r)
        done == IF race.state = "fulfilled" THEN loop
                ELSE [st |-> ForgetTracked(st0), found |-> FALSE]
    IN
    /\ session[s].initiator = "awaiting"
    /\ race.state \in {"fulfilled", "rejected"}
    /\ statusLog' = Append(statusLog,
           [status |-> IF race.state = "fulfilled" THEN "success" ELSE "failed",
            error |-> NoValue, by |-> s])
    /\ pendingRequests' = done.st.pendingRequests
    /\ requestTracker' = done.st.requestTracker
    /\ request' = done.st.request
    /\ replay' = done.st.replay
    /\ isRefreshing' = FALSE
    /\ returned' = [returned EXCEPT
           ![r].kind = IF done.found THEN "replay" ELSE "reject",
           ![r].value = IF done.found THEN NoValue ELSE session[s].error]
    /\ session' = [session EXCEPT ![s].initiator = "done"]
    /\ UNCHANGED <<nsess, pollPromise>>
    /\ UNCHANGED notPolling

\* (a poll that settles at any tick, refresh in progress or not)
PollTickAnyTime(r) ==
    /\ pollPromise[r].state = "pending"
    /\ IF r \notin pendingRequests
       THEN /\ pollPromise' = [pollPromise EXCEPT ![r].state = "resolved",
                                                  ![r].value = Undefined]
            /\ UNCHANGED pendingRequests
       ELSE /\ pendingRequests' = pendingRequests \ {r}
            /\ pollPromise' = [pollPromise EXCEPT ![r].state = "rejected",
                                                  ![r].value = returned[r].error]
    /\ UNCHANGED <<isRefreshing, requestTracker, request, statusLog, session, nsess,
                   returned, replay>>
    /\ UNCHANGED notPolling

\* a tick of request r's setInterval at which isRefreshing is false (a tick at
\* which it is true does nothing)
PollTick(r) ==
    /\ pollPromise[r].state = "pending"
    /\ ~ isRefreshing
    /\ IF r \notin pendingRequests
       THEN /\ pollPromise' = [pollPromise EXCEPT ![r].state = "resolved",
                                                  ![r].value = Undefined]
            /\ UNCHANGED pendingRequests
       ELSE /\ pendingRequests' = pendingRequests \ {r}
            /\ pollPromise' = [pollPromise EXCEPT ![r].state = "rejected",
                                                  ![r].value = returned[r].error]
    /\ UNCHANGED <<isRefreshing, requestTracker, request, statusLog, session, nsess,
                   returned, replay>>
    /\ UNCHANGED notPolling

NextPolling ==
    \/ \E r \in Requests : PollingHandleFailure(r)
    \/ \E r \in Requests : PollingHandleReplayFailure(r)
    \/ \E r \in Requests : ReplaySucceeds(r)
    \/ \E s \in Sessions, t \in RefreshResults : RefreshResolves(s, t)
    \/ \E s \in Sessions, v \in RefreshRejections : RefreshRejects(s, v)
    \/ \E s \in Sessions : PollingResume(s)
    \/ \E r \in Requests : PollTick(r)

SpecPolling == InitPolling /\ [][NextPolling]_vars

\* the promise the original caller of request r holds, in src/index.js
CallerPolling(r) ==
    LET ret == returned[r]
        a == replay[r]
        p == pollPromise[r]
    IN  IF ret.kind = "none" THEN [state |-> "inflight", value |-> NoValue]
        ELSE IF ret.kind = "reject" THEN [state |-> "rejected", value |-> ret.value]
        ELSE IF ret.kind = "replay" /\ a.state = "fulfilled"
             THEN [state |-> "fulfilled", value |-> a.value]
        ELSE IF ret.kind = "replay" /\ a.state = "rejected"
             THEN [state |-> "rejected", value |-> a.value]
        ELSE IF ret.kind = "poll" /\ p.state = "resolved"
             THEN [state |-> "fulfilled", value |-> p.value]
        ELSE IF ret.kind = "poll" /\ p.state = "rejected"
             THEN [state |-> "rejected", value |-> p.value]
        ELSE [state |-> "pending", value |-> NoValue]

\* ---------------------------------------------------------------- C17
\* the requests queued on session s of the polling implementation
QueuedOn(s) ==
    {session[s].request} \cup
    {r \in Requests : returned[r].kind = "poll" /\ pollPromise[r].session = s}

\* C17: in the polling implementation, when the refresh of a session failed,
\* every request queued on it, the initiator's and every joiner's, is rejected
\* with the original error of its own failed call.
C17_QueuedRejectedWithOriginal ==
    \A s \in 1..nsess :
        (session[s].initiator = "done" /\ session[s].race.state = "rejected") =>
            \A r \in QueuedOn(s) :
                CallerPolling(r).state # "pending" =>
                    CallerPolling(r) = [state |-> "rejected", value |-> returned[r].error]

\* ---------------------------------------------------------------- C18
\* refreshTokenFn of session s settles in this step, after the timeout had
\* already decided the session's race
LateSettlement(s) ==
    /\ session[s].fn = "running" /\ session'[s].fn = "settled"
    /\ session[s].timer = "fired" /\ session[s].race.reason = TimeoutError

\* C18: a settlement of refreshTokenFn that comes after the timeout force-failed
\* its session changes nothing: no request is replayed or rejected, no status is
\* notified, and isRefreshing and the wait set, possibly those of a newer
\* session, stay as they are.
C18_LateSettlementIgnored ==
    [][\A s \in Sessions :
          LateSettlement(s) =>
              /\ session' = [session EXCEPT ![s].fn = "settled"]
              /\ UNCHANGED <<isRefreshing, pendingRequests, refreshPromise, request,
                             retryPromise, replay, returned, nsess, statusLog>>]_vars

\* session 1 timed out and ended, its refreshTokenFn settled afterwards, and
\* session 2 is in progress with its race still open
C18_Witness ==
    /\ TimedOut(1) /\ session[1].initiator = "done" /\ session[1].fn = "settled"
    /\ session[2].initiator = "awaiting" /\ session[2].race.state = "pending"
    /\ isRefreshing /\ refreshPromise = 2 /\ pendingRequests # <<>>
    /\ StatusesBy(1) = <<"refreshing", "failed">>
    /\ StatusesBy(2) = <<"refreshing">>

\* ---------------------------------------------------------------- C19
\* C19: once a session has ended no timeout timer of it is still pending: when
\* refreshTokenFn settles before the timeout, ending the session cancels the timer.
C19_NoTimerAfterEnd ==
    \A s \in Sessions : session[s].initiator = "done" => session[s].timer # "armed"

\* ---------------------------------------------------------------- C20
\* the invocations of refreshTokenFn that were started and have not settled
RunningCalls == {s \in Sessions : session[s].fn = "running"}

\* C20: at most one invocation of refreshTokenFn is started and not yet settled,
\* also after a timeout ended a session and a later failure started a new one,
\* and a session invokes refreshTokenFn at most once.
C20_OneRenewalAtATime ==
    /\ Cardinality(RunningCalls) <= 1
    /\ \A s \in Sessions : session[s].calls <= 1

\* ---------------------------------------------------------------- C21
\* the handler finishes for request r in this step without having begun a
\* session: r's first failure was not retryable or joined the session in
\* progress, or r's re-issue failed again
NotInitiatorStep(r) ==
    /\ nsess' = nsess
    /\ \/ returned[r].kind = "none" /\ returned'[r].kind # "none"
       \/ FailsAgain(r)

\* C21: a handler that is not the initiator of the current session neither
\* clears isRefreshing nor empties the wait set, settles no other call's
\* waiting request, invokes refreshTokenFn for nobody and notifies no status;
\* a joiner only appends its own entry and returns its own promise.
C21_OnlyInitiatorEnds ==
    [][\A r \in Requests :
          NotInitiatorStep(r) =>
              /\ isRefreshing' = isRefreshing
              /\ refreshPromise' = refreshPromise
              /\ statusLog' = statusLog
              /\ session' = session
              /\ pendingRequests' \in {pendingRequests, Append(pendingRequests, r)}
              /\ \A q \in Requests \ {r} :
                     /\ retryPromise'[q] = retryPromise[q]
                     /\ request'[q] = request[q]
                     /\ replay'[q] = replay[q]
              /\ (pendingRequests' # pendingRequests) =>
                     /\ returned'[r].kind = "retryPromise"
                     /\ retryPromise'[r].state = "pending"]_vars

\* ---------------------------------------------------------------- C22
\* session s ended after refreshTokenFn resolved with null
EndedWithoutCredential(s) ==
    /\ session[s].initiator = "done"
    /\ session[s].race.state = "fulfilled"
    /\ session[s].race.token = NULL

\* C22: a refresh that resolves with null still counts as success: "success" is
\* notified, every waiting request is re-issued exactly once with its
\* Authorization header as it was, and none is rejected.
C22_NoNewCredential ==
    \A s \in Sessions :
        EndedWithoutCredential(s) =>
            /\ StatusesBy(s) = <<"refreshing", "success">>
            /\ \A r \in Batch(s) :
                   /\ retryPromise[r].state = "resolved"
                   /\ retryPromise[r].rejectCalls = 0
                   /\ replay[r].count = 1
                   /\ replay[r].sent = OldAuthorization
                   /\ request[r].Authorization = OldAuthorization

\* session 1 ended on a null result with the initiator and a joiner waiting
C22_Witness ==
    /\ EndedWithoutCredential(1)
    /\ Batch(1) = {1, 2}
    /\ replay[1].count = 1 /\ replay[2].count = 1
    /\ replay[2].sent = OldAuthorization
    /\ StatusesBy(1) = <<"refreshing", "success">>

\* ---------------------------------------------------------------- C23
\* request r's entry was resolved by a successful refresh and its handler returned
Replayed(r) ==
    /\ retryPromise[r].state = "resolved"
    /\ returned[r].kind = "retryPromise"

\* C23 (state part): the caller's promise follows its own re-issued request:
\* pending while it is in flight, fulfilled with its response, or rejected with
\* its failure.
C23_FollowsOwnReplay ==
    \A r \in Requests :
        Replayed(r) =>
            /\ replay[r].state \in {"flying", "fulfilled", "rejected"}
            /\ replay[r].state = "flying" => Caller(r).state = "pending"
            /\ replay[r].state = "fulfilled" =>
                   Caller(r) = [state |-> "fulfilled", value |-> Value("response", FALSE)]
            /\ replay[r].state = "rejected" =>
                   /\ Caller(r) = [state |-> "rejected", value |-> replay[r].value]
                   /\ replay[r].value \in ReplayFailures(r)

\* C23 (step part): the outcome of one request's replay leaves every other
\* caller's promise as it was.
C23_OthersUnaffected ==
    \A r \in Requests :
        (replay[r].state = "flying" /\ replay'[r].state # "flying") =>
            \A q \in Requests \ {r} : Caller(q)' = Caller(q)

\* C23: after a successful refresh each waiting caller's promise takes the
\* outcome of its own re-issued request, and one replay's failure changes no
\* other caller's outcome.
C23_ReplayAdoption == [](C23_FollowsOwnReplay) /\ [][C23_OthersUnaffected]_vars

\* of one batch, the initiator's replay failed and the joiner's succeeded
C23_Witness ==
    /\ Batch(1) = {1, 2} /\ Replayed(1) /\ Replayed(2)
    /\ retryPromise[1].role = "initiator" /\ retryPromise[2].role = "joiner"
    /\ Caller(1).state = "rejected" /\ Caller(1).value \in ReplayFailures(1)
    /\ Caller(2) = [state |-> "fulfilled", value |-> Value("response", FALSE)]

\* ---------------------------------------------------------------- C24
\* C24 (state part): every request in the wait set carries the _retry mark and
\* is there once.
C24_WaitingAreMarked ==
    \A r \in Range(pendingRequests) :
        request[r]._retry /\ Occurrences(pendingRequests, r) = 1

\* C24 (step part): the mark is never cleared, and a step admits a request only
\* if it was unmarked and had never had an entry, and marks it.
C24_MarkedOnce ==
    \A r \in Requests :
        /\ request[r]._retry => request'[r]._retry
        /\ Occurrences(pendingRequests', r) > Occurrences(pendingRequests, r) =>
               /\ ~ request[r]._retry
               /\ retryPromise[r].state = "none"
               /\ request'[r]._retry

\* C24: invariant I2. Every request in the wait set has its _retry mark, the mark
\* is never cleared, so no request is admitted to a wait set twice.
C24_RetryMark == [](C24_WaitingAreMarked) /\ [][C24_MarkedOnce]_vars

\* request 1 went through session 1, was re-issued and failed again without being
\* admitted anew, while requests 2 and 3 wait in session 2
C24_Witness ==
    /\ pendingRequests = <<2, 3>>
    /\ request[1]._retry /\ request[2]._retry /\ request[3]._retry
    /\ retryPromise[1].session = 1 /\ replay[1].state = "rejected" /\ replay[1].count = 1
    /\ retryPromise[2].session = 2 /\ retryPromise[3].session = 2

\* ---------------------------------------------------------------- C25
\* C25: between handler steps a non-empty wait set implies that isRefreshing is
\* true: whenever no refresh is in progress the wait set is empty.
C25_FlagQueueConsistent == pendingRequests # <<>> => isRefreshing

\* C25 (consequence): a fan-out settles entries of its own session only.
C25_NoStaleEntryPickedUp ==
    \A r \in Requests :
        retryPromise[r].state \in {"resolved", "rejected"} /\ retryPromise[r].settledBy # 0
            => retryPromise[r].settledBy = retryPromise[r].session

\* ---------------------------------------------------------------- C26
\* the timer of session s fires in this step, after the session has ended
StaleTimerFires(s) ==
    /\ session[s].timer = "armed" /\ session'[s].timer = "fired"
    /\ session[s].initiator = "done"

\* C26 (state part): a session whose race the timeout decided had its own timer fire.
C26_OwnTimerOnly ==
    \A s \in Sessions :
        (session[s].race.state = "rejected" /\ session[s].race.reason = TimeoutError)
            => session[s].timer = "fired"

\* C26 (step part): the timer of an ended session fires without effect: no
\* request is rejected, no status notified, isRefreshing and the wait set stay,
\* and the race of a newer session stays open.
C26_StaleTimerNoEffect ==
    \A s \in Sessions :
        StaleTimerFires(s) =>
            /\ session' = [session EXCEPT ![s].timer = "fired"]
            /\ UNCHANGED <<isRefreshing, pendingRequests, refreshPromise, request,
                           retryPromise, replay, returned, nsess, statusLog>>

\* C26: a session is force-failed only by its own timer, and the timer of a
\* session that already ended is harmless when it fires, also while a newer
\* session is in progress.
C26_StaleTimerHarmless == [](C26_OwnTimerOnly) /\ [][C26_StaleTimerNoEffect]_vars

\* session 1 ended in success, its timer fired afterwards, and session 2 is in
\* progress with its race open and its request waiting
C26_Witness ==
    /\ session[1].initiator = "done" /\ session[1].race.state = "fulfilled"
    /\ session[1].timer = "fired"
    /\ StatusesBy(1) = <<"refreshing", "success">>
    /\ session[2].initiator = "awaiting" /\ session[2].race.state = "pending"
    /\ session[2].timer = "armed"
    /\ isRefreshing /\ refreshPromise = 2 /\ pendingRequests = <<2>>
    /\ retryPromise[1].state = "resolved" /\ retryPromise[2].state = "pending"

\* ---------------------------------------------------------------- C27
\* the joiners of the polling implementation
Pollers == {r \in Requests : returned[r].kind = "poll"}

\* C27 (step part): a joiner's promise settles only at a tick of its own poll at
\* which isRefreshing is false, and that tick changes nothing but the promise.
C27_SettlesAtIdleTick ==
    \A r \in Requests :
        (pollPromise[r].state = "pending" /\ pollPromise'[r].state # "pending") =>
            /\ ~ isRefreshing
            /\ \A q \in Requests \ {r} : pollPromise'[q] = pollPromise[q]
            /\ UNCHANGED <<isRefreshing, requestTracker, request, replay, returned,
                           session, nsess, statusLog>>

\* C27 (state part): a joiner is pending as long as its session is in progress;
\* once settled it is fulfilled with no value, whatever became of its re-issued
\* request, and its session has ended with the wait set cleaned of it.
C27_FulfilledWithNothing ==
    \A r \in Pollers :
        /\ pollPromise[r].state \in {"pending", "resolved"}
        /\ session[pollPromise[r].session].initiator = "awaiting" =>
               pollPromise[r].state = "pending"
        /\ pollPromise[r].state = "resolved" =>
               /\ CallerPolling(r) = [state |-> "fulfilled", value |-> Undefined]
               /\ CallerPolling(r).value # Value("response", FALSE)
               /\ session[pollPromise[r].session].initiator = "done"
               /\ r \notin pendingRequests

C27_WitnessStillWaiting ==
    /\ 2 \in Pollers /\ pollPromise[2].session = 1 /\ pollPromise[2].state = "pending"
    /\ session[1].initiator = "done" /\ session[1].race.state = "fulfilled"
    /\ replay[2].count = 1
    /\ isRefreshing /\ session[2].initiator = "awaiting"

====
